---- MODULE Spec2Model ----
(***************************************************************************)
(* A model of dmgr/datasources.py: the framing function segment_axis, the  *)
(* context-windowing ContextDataSource and the AggregatedDataSource.       *)
(*                                                                         *)
(* Conventions.  A numpy array with the sample axis first is a sequence    *)
(* of samples (1-based here, 0-based in the source: source index i is      *)
(* position i+1).  A sample of a 2-d feature array is one value; a sample  *)
(* of a ContextDataSource is a window, a sequence of 2r+1 such values.     *)
(* The source is Python 2 (itertools.izip): range returns a list and / on   *)
(* integers is floor division.  Python is run as written: assert           *)
(* statements execute and raise AssertionError.  A call either returns or  *)
(* raises; res.out is "ok" or the name of the exception.  The preprocessor *)
(* chain is the default (empty) chain, for which _process returns its      *)
(* argument.  All indices passed are integers >= 0.                        *)
(***************************************************************************)
EXTENDS Integers, Sequences, FiniteSets, TLC

VARIABLES
    backing,\* the caller's arrays, one [data, targets] pair per data source
    ds,     \* the object the calls go to (or the constructor call / its failure)
    op,     \* the call being made: its name and its arguments as passed
    arg,    \* the caller's index object (the `item` passed), as it is after the call
    res     \* what the call returned or raised

vars == <<backing, ds, op, arg, res>>

----------------------------------------------------------------------------
(* Bounds of the model *)

MaxLen == 5         \* longest array handed to segment_axis / ContextDataSource
MaxFrame == 4       \* largest frame_size tried
MaxHop == 3         \* largest hop_size tried
MaxVal == 2         \* sample values are 0..MaxVal
MaxRadius == 2      \* largest context_size tried
MaxStep == 3        \* largest step tried
MaxList == 3        \* longest index list passed to a ContextDataSource
MaxAggList == 2     \* longest index list passed to an AggregatedDataSource
MaxSources == 2     \* most data sources in an aggregation
MaxSourceLen == 2   \* longest array behind one data source of an aggregation

----------------------------------------------------------------------------
(* Python and numpy primitives *)

\* None, among arguments that are otherwise integers >= 0
None == -1

Min(a, b) == IF a < b THEN a ELSE b

Max(a, b) == IF a > b THEN a ELSE b

\* seq[a:b] for 0 <= a, 0 <= b (None means the default end)
PySlice(seq, a, b) ==
    LET lo == IF a = None THEN 0 ELSE Min(a, Len(seq))
        hi == IF b = None THEN Len(seq) ELSE Min(b, Len(seq))
    IN  SubSeq(seq, lo + 1, hi)

\* range(a, b, c) of Python 2 (a list), for c >= 1
RECURSIVE PyRange(_, _, _)
PyRange(a, b, c) == IF a >= b THEN <<>> ELSE <<a>> \o PyRange(a + c, b, c)

\* x or y, for an integer-or-None x
PyOr(x, y) == IF x = None \/ x = 0 THEN y ELSE x

Raise(exc) == [out |-> exc]

\* y[..., length:] = src, where the destination has dstLen places: numpy
\* copies a source of the same length, repeats a source of length one, and
\* refuses any other
NpAssign(dstLen, src) ==
    IF Len(src) = dstLen THEN [out |-> "ok", val |-> src]
    ELSE IF Len(src) = 1 THEN [out |-> "ok", val |-> [p \in 1..dstLen |-> src[1]]]
    ELSE Raise("ValueError: could not broadcast")

----------------------------------------------------------------------------
(* segment_axis(signal, frame_size, hop_size, axis=0, end, end_value) *)

\* the strided view: frame k (0-based) is buffer[k*hop_size : k*hop_size+frame_size]
Frames(signal, n, frame_size, hop_size) ==
    [k \in 1..n |-> SubSeq(signal, (k - 1) * hop_size + 1, (k - 1) * hop_size + frame_size)]

\* the tail of segment_axis, after the edge handling
SegmentTail(signal, frame_size, hop_size) ==
    LET length == Len(signal) IN
    IF length = 0 THEN Raise("ValueError: Not enough data points")
    ELSE IF ~(length >= frame_size) THEN Raise("AssertionError")
    ELSE IF ~((length - frame_size) % hop_size = 0) THEN Raise("AssertionError")
    ELSE LET n == 1 + (length - frame_size) \div hop_size
         IN  [out |-> "ok", signal |-> signal,
              frames |-> Frames(signal, n, frame_size, hop_size)]

\* the edge handling of segment_axis: the array the frames are taken from
SegmentEdge(signal, frame_size, hop_size, end, end_value) ==
    LET length == Len(signal)
        round_up == IF length > frame_size
                    THEN frame_size + (1 + (length - frame_size) \div hop_size) * hop_size
                    ELSE frame_size
        round_down == IF length > frame_size
                      THEN frame_size + ((length - frame_size) \div hop_size) * hop_size
                      ELSE 0
    IN  IF ~(round_down < length /\ length < round_up) THEN Raise("AssertionError")
        ELSE IF ~(round_up = round_down + hop_size
                  \/ (round_up = frame_size /\ round_down = 0))
        THEN Raise("AssertionError")
        ELSE IF end = "cut" THEN [out |-> "ok", val |-> SubSeq(signal, 1, round_down)]
        ELSE IF end = "pad"
        THEN [out |-> "ok",
              val |-> signal \o [p \in 1..(round_up - length) |-> end_value]]
        ELSE IF end = "wrap"
        THEN LET ext == NpAssign(round_up - length, PySlice(signal, 0, round_up - length))
             IN  IF ext.out = "ok" THEN [out |-> "ok", val |-> signal \o ext.val]
                 ELSE ext
        ELSE [out |-> "ok", val |-> signal]

segment_axis(signal, frame_size, hop_size, end, end_value) ==
    LET length == Len(signal) IN
    IF hop_size <= 0 THEN Raise("ValueError: hop_size must be positive.")
    ELSE IF frame_size <= 0 THEN Raise("ValueError: frame_size must be positive.")
    ELSE IF length < frame_size \/ (length - frame_size) % hop_size # 0
    THEN LET e == SegmentEdge(signal, frame_size, hop_size, end, end_value)
         IN  IF e.out = "ok" THEN SegmentTail(e.val, frame_size, hop_size) ELSE e
    ELSE SegmentTail(signal, frame_size, hop_size)

----------------------------------------------------------------------------
(* numpy indexing, sorting and stacking *)

\* one index into an array of n places: numpy counts a negative index from the end
InRange(n, i) == -n <= i /\ i < n

At(seq, i) == IF i < 0 THEN seq[Len(seq) + i + 1] ELSE seq[i + 1]

\* seq[i] for an integer i
NpIndex(seq, i) ==
    IF InRange(Len(seq), i) THEN [out |-> "ok", val |-> At(seq, i)]
    ELSE Raise("IndexError")

\* seq[idxs] for a list or array of integers idxs (a gather, in the order of idxs)
NpTake(seq, idxs) ==
    IF \A j \in 1..Len(idxs) : InRange(Len(seq), idxs[j])
    THEN [out |-> "ok", val |-> [j \in 1..Len(idxs) |-> At(seq, idxs[j])]]
    ELSE Raise("IndexError")

\* a.argsort(): the positions of a (0-based) in ascending order of their values.
\* numpy's default sort is not stable, so the order among equal values is left
\* open: kind "first" keeps equal values in position order, "last" reverses them.
ArgSortKinds == {"first", "last"}

Before(a, kind, i, j) ==
    \/ a[i] < a[j]
    \/ a[i] = a[j] /\ (IF kind = "first" THEN i < j ELSE i > j)

argsort(a, kind) ==
    LET rank(i) == Cardinality({j \in 1..Len(a) : Before(a, kind, j, i)})
    IN  [p \in 1..Len(a) |-> (CHOOSE i \in 1..Len(a) : rank(i) = p - 1) - 1]

\* np.searchsorted(a, v) on the sorted a: the insertion point left of equal values
searchsorted_left(a, v) == Cardinality({j \in 1..Len(a) : a[j] < v})

\* np.searchsorted(a, v, side='right'): the insertion point right of equal values
searchsorted_right(a, v) == Cardinality({j \in 1..Len(a) : a[j] <= v})

\* np.vstack(parts) of a list of batches: their rows, one batch after the other
RECURSIVE Concat(_)
Concat(parts) == IF parts = <<>> THEN <<>> ELSE Head(parts) \o Concat(Tail(parts))

vstack(parts) ==
    IF parts = <<>> THEN Raise("ValueError: need at least one array")
    ELSE [out |-> "ok", val |-> Concat(parts)]

\* list.sort() of a list of integers
RECURSIVE Insert(_, _)
Insert(x, sorted) ==
    IF sorted = <<>> THEN <<x>>
    ELSE IF x < Head(sorted) THEN <<x>> \o sorted
    ELSE <<Head(sorted)>> \o Insert(x, Tail(sorted))

RECURSIVE ListSort(_)
ListSort(item) ==
    IF item = <<>> THEN <<>>
    ELSE Insert(item[Len(item)], ListSort(SubSeq(item, 1, Len(item) - 1)))

----------------------------------------------------------------------------
(* class DataSource *)

\* seq[start:stop:step] for start, stop >= 0 or None and step >= 1 or None
PySliceStep(seq, start, stop, step) ==
    LET lo == IF start = None THEN 0 ELSE Min(start, Len(seq))
        hi == IF stop = None THEN Len(seq) ELSE Min(stop, Len(seq))
        idxs == PyRange(lo, hi, IF step = None THEN 1 ELSE step)
    IN  [j \in 1..Len(idxs) |-> seq[idxs[j] + 1]]

\* DataSource.__init__ (a 1-d array gets a second axis of length one, so every
\* array is held with the sample axis first and one column)
DataSource(data, targets, start, stop, step) ==
    IF Len(data) # Len(targets) THEN Raise("AssertionError")
    ELSE [out |-> "ok",
          self |-> [cls |-> "DataSource",
                    _data |-> PySliceStep(data, start, stop, step),
                    _targets |-> PySliceStep(targets, start, stop, step)]]

\* a read result: the processed features and the targets
Read(d, t) ==
    IF d.out # "ok" THEN Raise(d.out)
    ELSE IF t.out # "ok" THEN Raise(t.out)
    ELSE [out |-> "ok", d |-> d.val, t |-> t.val]

\* DataSource.__getitem__ with an integer
DataSourceGetInt(self, item_index) ==
    Read(NpIndex(self._data, item_index), NpIndex(self._targets, item_index))

\* DataSource.__getitem__ with a list of integers
DataSourceGetList(self, item_index) ==
    Read(NpTake(self._data, item_index), NpTake(self._targets, item_index))

----------------------------------------------------------------------------
(* class ContextDataSource *)

Filler(k) == [j \in 1..k |-> 0]

\* self._begin_data: window i is (context_size - i) fillers, then data[0:i+context_size+1]
BeginData(data, context_size) ==
    [i1 \in 1..context_size |->
        Filler(context_size - (i1 - 1)) \o PySlice(data, 0, (i1 - 1) + context_size + 1)]

\* a slip: the tail windows built for i = 0 .. context_size-1, not reversed
EndData_NotReversed(data, context_size) ==
    [p \in 1..context_size |->
        LET i == p - 1
        IN  PySlice(data, Len(data) - context_size - i - 1, None)
                \o Filler(context_size - i)]

\* self._end_data: for i = context_size-1 down to 0,
\* data[n-context_size-i-1:] and then (context_size - i) fillers
EndData(data, context_size) ==
    [p \in 1..context_size |->
        LET i == context_size - p
        IN  PySlice(data, Len(data) - context_size - i - 1, None)
                \o Filler(context_size - i)]

\* np.vstack([filler] * k + [data[a:b]]) for k >= 1 and a slice of m >= 2
\* samples: the rows of a 2-d data stack, but of a 1-d data the filler is a
\* scalar, stacked as one row of one column, and the slice one row of m columns
StackFillers(ndim) ==
    IF ndim = 1 THEN Raise("ValueError: dimensions must match") ELSE [out |-> "ok"]

\* ContextDataSource.__init__, for data of ndim 1 or 2: DataSource.__init__
\* gives self._data a second axis, the buffers are built from data as passed
ContextDataSource(data, targets, context_size, start, stop, step, ndim) ==
    LET base == DataSource(data, targets, start, stop, None) IN
    IF base.out # "ok" THEN base
    ELSE LET seg == segment_axis(base.self._data, 1 + 2 * context_size, 1, "cut", 0) IN
    IF seg.out # "ok" THEN seg
    ELSE IF Len(data) = 0 THEN Raise("IndexError")
    ELSE IF context_size > 0 /\ StackFillers(ndim).out # "ok" THEN StackFillers(ndim)
    ELSE LET self == [cls |-> "ContextDataSource",
                      _data |-> seg.frames,
                      _targets |-> base.self._targets,
                      step |-> PyOr(step, 1),
                      context_size |-> context_size,
                      _n_data |-> Len(data),
                      _begin_data |-> BeginData(data, context_size),
                      _end_data |-> EndData(data, context_size)]
         IN  IF self._n_data # Len(self._data) + Len(self._begin_data) + Len(self._end_data)
             THEN Raise("AssertionError")
             ELSE [out |-> "ok", self |-> self]

\* ContextDataSource.n_data
ContextNData(self) == self._n_data \div self.step

\* ContextDataSource.__getitem__ with an integer
ContextGetInt(self, item0) ==
    LET item == item0 * self.step IN
    IF item < self.context_size
    THEN Read(NpIndex(self._begin_data, item), NpIndex(self._targets, item))
    ELSE IF item >= self._n_data - self.context_size
    THEN Read(NpIndex(self._end_data, item - self._n_data + self.context_size),
              NpIndex(self._targets, item))
    ELSE Read(NpIndex(self._data, item - self.context_size),
              NpIndex(self._targets, item))

\* the three gathers of the list read, in the order the source makes them:
\* each is a Read, or missing when its partition is empty
ContextParts(self, item, gd_begin, gd_end) ==
    LET head == SubSeq(item, 1, gd_begin)
        mid == SubSeq(item, gd_begin + 1, gd_end)
        tail == SubSeq(item, gd_end + 1, Len(item))
    IN  (IF gd_begin > 0
         THEN <<Read(NpTake(self._begin_data, head), NpTake(self._targets, head))>>
         ELSE <<>>)
        \o
        (IF gd_begin < gd_end
         THEN <<Read(NpTake(self._data, [j \in 1..Len(mid) |-> mid[j] - self.context_size]),
                     NpTake(self._targets, mid))>>
         ELSE <<>>)
        \o
        (IF gd_end < Len(item)
         THEN <<Read(NpTake(self._end_data,
                            [j \in 1..Len(tail) |->
                                tail[j] - self._n_data + self.context_size]),
                     NpTake(self._targets, tail))>>
         ELSE <<>>)

\* a slip: the sorting permutation used where its inverse is needed
RevertIdxs_SortIdxs(sort_idxs, kind) == sort_idxs

\* revert_idxs = sort_idxs.argsort(): how to un-sort
RevertIdxs(sort_idxs, kind) == argsort(sort_idxs, kind)

\* a slip: the list read sorts the caller's list, as the aggregation's does
ContextListAfter_SortedInPlace(item) == ListSort(item)

\* what the list read leaves in the caller's list: np.array(item) * self.step
\* makes a new array and rebinds the local name, the list is not written
ContextListAfter(item) == item

\* ContextDataSource.__getitem__ with a list of integers
ContextGetList(self, item0, kind) ==
    LET scaled == [j \in 1..Len(item0) |-> item0[j] * self.step]
        sort_idxs == argsort(scaled, kind)
        revert_idxs == RevertIdxs(sort_idxs, kind)
        item == [j \in 1..Len(scaled) |-> scaled[sort_idxs[j] + 1]]
        gd_begin == searchsorted_left(item, self.context_size)
        gd_end == searchsorted_right(item, self._n_data - self.context_size - 1)
        parts == ContextParts(self, item, gd_begin, gd_end)
        failed == {j \in 1..Len(parts) : parts[j].out # "ok"}
    IN  IF failed # {} THEN Raise(parts[CHOOSE j \in failed : \A k \in failed : j <= k].out)
        ELSE LET d == vstack([j \in 1..Len(parts) |-> parts[j].d])
                 t == vstack([j \in 1..Len(parts) |-> parts[j].t])
             IN  Read(IF d.out = "ok" THEN NpTake(d.val, revert_idxs) ELSE d,
                      IF t.out = "ok" THEN NpTake(t.val, revert_idxs) ELSE t)

\* ContextDataSource.__getitem__ with a slice (the values of a range are all
\* different, so argsort has one outcome whatever the kind)
ContextGetSlice(self, start, stop, step) ==
    ContextGetList(self,
                   PyRange(PyOr(start, 0), PyOr(stop, ContextNData(self)), PyOr(step, 1)),
                   "first")

----------------------------------------------------------------------------
(* class AggregatedDataSource *)

\* __getitem__ of a data source of either class, with an integer / with a list
\* (the local index is a numpy int64, which is an int to isinstance in Python 2
\* where a C long has 64 bits)
SourceGetInt(source, item) ==
    IF source.cls = "ContextDataSource" THEN ContextGetInt(source, item)
    ELSE DataSourceGetInt(source, item)

SourceGetList(source, item, kind) ==
    IF source.cls = "ContextDataSource" THEN ContextGetList(source, item, kind)
    ELSE DataSourceGetList(source, item)

\* n_data, and so len(), of a data source of either class
SourceNData(source) ==
    IF source.cls = "ContextDataSource" THEN ContextNData(source)
    ELSE Len(source._data)

\* feature_shape: _data.shape[1:], where a feature sample has one column and a
\* ContextDataSource's _data holds windows of 1 + 2*context_size samples
FeatureShape(source) ==
    IF source.cls = "ContextDataSource"
    THEN <<1 + 2 * source.context_size, 1>>
    ELSE <<1>>

\* target_shape: _targets.shape[1:]
TargetShape(source) == <<1>>

\* np.array(a).cumsum()
RECURSIVE cumsum(_)
cumsum(a) ==
    IF a = <<>> THEN <<>>
    ELSE LET front == cumsum(SubSeq(a, 1, Len(a) - 1))
         IN  front \o <<(IF front = <<>> THEN 0 ELSE front[Len(front)]) + a[Len(a)]>>

\* AggregatedDataSource.__init__
AggregatedDataSource(data_sources) ==
    IF ~(Len(data_sources) > 0) THEN Raise("AssertionError")
    ELSE IF \E k \in 1..Len(data_sources) :
                FeatureShape(data_sources[k]) # FeatureShape(data_sources[1])
    THEN Raise("AssertionError")
    ELSE IF \E k \in 1..Len(data_sources) :
                TargetShape(data_sources[k]) # TargetShape(data_sources[1])
    THEN Raise("AssertionError")
    ELSE [out |-> "ok",
          self |-> [cls |-> "AggregatedDataSource",
                    _data_sources |-> data_sources,
                    _ds_ends |-> cumsum(<<0>> \o [k \in 1..Len(data_sources) |->
                                                     SourceNData(data_sources[k])])]]

\* AggregatedDataSource.n_data
RECURSIVE Sum(_)
Sum(a) == IF a = <<>> THEN 0 ELSE Head(a) + Sum(Tail(a))

AggNData(self) ==
    Sum([k \in 1..Len(self._data_sources) |-> SourceNData(self._data_sources[k])])

\* a slip: searchsorted with its default side, 'left'
to_ds_idx_SideLeft(self, idx) ==
    LET ds_idx == searchsorted_left(self._ds_ends, idx) - 1
    IN  <<ds_idx, idx - At(self._ds_ends, ds_idx)>>

\* AggregatedDataSource._to_ds_idx for one index: <<ds_idx, d_idx>>
to_ds_idx(self, idx) ==
    LET ds_idx == searchsorted_right(self._ds_ends, idx) - 1
    IN  <<ds_idx, idx - At(self._ds_ends, ds_idx)>>

\* self._data_sources[ds_idx], an index into a Python list
SourceAt(self, ds_idx) == NpIndex(self._data_sources, ds_idx)

\* AggregatedDataSource.__getitem__ with an integer
AggGetInt(self, item) ==
    LET pair == to_ds_idx(self, item)
        source == SourceAt(self, pair[1])
    IN  IF source.out # "ok" THEN source
        ELSE SourceGetInt(source.val, pair[2])

\* a slip: the list is not sorted before it is translated and grouped
AggListAfter_Unsorted(item) == item

\* what the list read leaves in the caller's list: item.sort() sorts it in place
AggListAfter(item) == ListSort(item)

\* itertools.groupby over the translated list: one <<ds_idx, d_idx list>> per
\* maximal run of equal ds_idx
RECURSIVE GroupRuns(_, _)
GroupRuns(ds_idxs, d_idxs) ==
    IF ds_idxs = <<>> THEN <<>>
    ELSE LET n == Len(ds_idxs)
             run == CHOOSE m \in 1..n :
                        /\ \A j \in 1..m : ds_idxs[j] = ds_idxs[1]
                        /\ (m = n \/ ds_idxs[m + 1] # ds_idxs[1])
         IN  <<[ds_idx |-> ds_idxs[1], d_idx |-> SubSeq(d_idxs, 1, run)]>>
                 \o GroupRuns(SubSeq(ds_idxs, run + 1, n), SubSeq(d_idxs, run + 1, n))

\* the read the loop body makes for one group
GroupRead(self, group, kind) ==
    LET source == SourceAt(self, group.ds_idx)
    IN  IF source.out # "ok" THEN source
        ELSE SourceGetList(source.val, group.d_idx, kind)

\* AggregatedDataSource.__getitem__ with a list of integers.  `sorted` is the
\* caller's list after item.sort(); `calls` lists the batched reads made.
AggGetList(self, item, kind) ==
    LET sorted == AggListAfter(item)
        pairs == [j \in 1..Len(sorted) |-> to_ds_idx(self, sorted[j])]
        groups == GroupRuns([j \in 1..Len(pairs) |-> pairs[j][1]],
                            [j \in 1..Len(pairs) |-> pairs[j][2]])
        reads == [g \in 1..Len(groups) |-> GroupRead(self, groups[g], kind)]
        failed == {g \in 1..Len(reads) : reads[g].out # "ok"}
    IN  IF failed # {}
        THEN Raise(reads[CHOOSE g \in failed : \A h \in failed : g <= h].out)
        ELSE LET r == Read(vstack([g \in 1..Len(reads) |-> reads[g].d]),
                           vstack([g \in 1..Len(reads) |-> reads[g].t]))
             IN  IF r.out # "ok" THEN r
                 ELSE [out |-> "ok", d |-> r.d, t |-> r.t, calls |-> groups]

\* AggregatedDataSource.__getitem__ with a slice
AggGetSlice(self, start, stop, step) ==
    AggGetList(self,
               PyRange(PyOr(start, 0), PyOr(stop, AggNData(self)), PyOr(step, 1)),
               "first")

----------------------------------------------------------------------------
(* The framing function on its own: Init draws a call, the action makes it *)

Pending == [out |-> "pending"]

NoObject == [cls |-> "none"]

\* feature samples base, base+1, ... (all different, the first one 0 when base
\* is 0, like the filler) and target samples that are all different and negative
FeatureArray(base, n) == [i \in 1..n |-> base + i - 1]

TargetArray(base, n) == [i \in 1..n |-> 0 - (base + i)]

SegInit ==
    /\ ds = NoObject
    /\ arg = <<>>
    /\ res = Pending
    /\ \E n \in 0..MaxLen, base \in {0, MaxVal}, frame_size \in 0..MaxFrame,
          hop_size \in 0..MaxHop, end \in {"cut", "pad", "wrap"},
          end_value \in {0, MaxVal} :
        /\ backing = <<[data |-> FeatureArray(base, n), targets |-> <<>>]>>
        /\ op = [name |-> "segment_axis", signal |-> FeatureArray(base, n),
                 frame_size |-> frame_size, hop_size |-> hop_size,
                 end |-> end, end_value |-> end_value]

CallSegmentAxis ==
    /\ op.name = "segment_axis"
    /\ res = Pending
    /\ res' = segment_axis(op.signal, op.frame_size, op.hop_size, op.end, op.end_value)
    /\ UNCHANGED <<backing, ds, op, arg>>

SegNext == CallSegmentAxis

SegSpec == SegInit /\ [][SegNext]_vars

----------------------------------------------------------------------------
(* A ContextDataSource and its reads.  Init draws a constructor call, the  *)
(* first action runs it, and from then on the caller makes one __getitem__ *)
(* call after the other.                                                   *)

OptionalIndex(hi) == {None} \cup (0..hi)

CtxInit ==
    /\ ds = NoObject
    /\ arg = <<>>
    /\ res = Pending
    /\ \E n \in 0..MaxLen, base \in {0, MaxVal}, extra \in {0, 1},
          context_size \in 0..MaxRadius, start \in OptionalIndex(1),
          stop \in OptionalIndex(MaxLen + 1), step \in OptionalIndex(MaxStep),
          ndim \in {1, 2} :
        /\ backing = <<[data |-> FeatureArray(base, n),
                        targets |-> TargetArray(base, n + extra)]>>
        /\ op = [name |-> "ContextDataSource", context_size |-> context_size,
                 start |-> start, stop |-> stop, step |-> step, ndim |-> ndim]

CtxConstruct ==
    /\ op.name = "ContextDataSource"
    /\ res = Pending
    /\ LET r == ContextDataSource(backing[1].data, backing[1].targets,
                                 op.context_size, op.start, op.stop, op.step, op.ndim)
       IN  /\ res' = [out |-> r.out]
           /\ ds' = IF r.out = "ok" THEN r.self ELSE NoObject
    /\ UNCHANGED <<backing, op, arg>>

\* the caller takes the result of the call that returned and is ready to make
\* the next one
Idle == op.name = "idle"

Return ==
    /\ res.out # "pending"
    /\ ds.cls # "none"
    /\ ~Idle
    /\ op' = [name |-> "idle"]
    /\ arg' = <<>>
    /\ res' = [out |-> "idle"]
    /\ UNCHANGED <<backing, ds>>

\* the logical indices tried: every one whose unscaled index is a sample, and
\* the first one past them
CtxIndices(self) == 0..((self._n_data - 1) \div self.step + 1)

IndexLists(S, longest) == UNION {[1..k -> S] : k \in 0..longest}

CtxReadInt ==
    /\ Idle
    /\ ds.cls = "ContextDataSource"
    /\ \E item \in CtxIndices(ds) :
        /\ op' = [name |-> "getitem_int", item |-> item]
        /\ arg' = item
        /\ res' = ContextGetInt(ds, item)
    /\ UNCHANGED <<backing, ds>>

CtxReadList ==
    /\ Idle
    /\ ds.cls = "ContextDataSource"
    /\ \E item \in IndexLists(CtxIndices(ds), MaxList), kind \in ArgSortKinds :
        /\ op' = [name |-> "getitem_list", item |-> item]
        /\ arg' = ContextListAfter(item)
        /\ res' = ContextGetList(ds, item, kind)
    /\ UNCHANGED <<backing, ds>>

CtxReadSlice ==
    /\ Idle
    /\ ds.cls = "ContextDataSource"
    /\ \E start \in OptionalIndex(ContextNData(ds)),
          stop \in OptionalIndex(ContextNData(ds) + 1),
          step \in {None} \cup (1..MaxStep) :
        /\ op' = [name |-> "getitem_slice", start |-> start, stop |-> stop, step |-> step]
        /\ arg' = <<start, stop, step>>
        /\ res' = ContextGetSlice(ds, start, stop, step)
    /\ UNCHANGED <<backing, ds>>

CtxNext == CtxConstruct \/ Return \/ CtxReadInt \/ CtxReadList \/ CtxReadSlice

CtxSpec == CtxInit /\ [][CtxNext]_vars

----------------------------------------------------------------------------
(* An AggregatedDataSource and its reads.  Init draws the data sources,    *)
(* already constructed, and the constructor call that aggregates them.     *)

\* the arrays behind data source k: the samples of different sources differ
SourceBacking(k, n) ==
    [data |-> FeatureArray((k - 1) * (MaxSourceLen + 1), n),
     targets |-> TargetArray((k - 1) * (MaxSourceLen + 1), n)]

\* how a data source of an aggregation is made: a DataSource, or a
\* ContextDataSource of radius 0 or 1 and step 1 or 2
SourceKinds ==
    {[cls |-> "DataSource", context_size |-> 0, step |-> None]}
        \cup [cls : {"ContextDataSource"}, context_size : {0, 1}, step : {1, 2}]

MakeSource(how, b) ==
    IF how.cls = "ContextDataSource"
    THEN ContextDataSource(b.data, b.targets, how.context_size, None, None, how.step, 2)
    ELSE DataSource(b.data, b.targets, None, None, None)

AggInit ==
    /\ ds = NoObject
    /\ arg = <<>>
    /\ res = Pending
    /\ \E N \in 0..MaxSources :
       \E lens \in [1..N -> 0..MaxSourceLen], hows \in [1..N -> SourceKinds] :
        /\ backing = [k \in 1..N |-> SourceBacking(k, lens[k])]
        /\ \A k \in 1..N : MakeSource(hows[k], backing[k]).out = "ok"
        /\ op = [name |-> "AggregatedDataSource",
                 data_sources |-> [k \in 1..N |-> MakeSource(hows[k], backing[k]).self]]

AggConstruct ==
    /\ op.name = "AggregatedDataSource"
    /\ res = Pending
    /\ LET r == AggregatedDataSource(op.data_sources)
       IN  /\ res' = [out |-> r.out]
           /\ ds' = IF r.out = "ok" THEN r.self ELSE NoObject
    /\ UNCHANGED <<backing, op, arg>>

\* the global indices tried: every valid one, and the first one past them
AggIndices(self) == 0..AggNData(self)

AggReadInt ==
    /\ Idle
    /\ ds.cls = "AggregatedDataSource"
    /\ \E item \in AggIndices(ds) :
        /\ op' = [name |-> "getitem_int", item |-> item]
        /\ arg' = item
        /\ res' = AggGetInt(ds, item)
    /\ UNCHANGED <<backing, ds>>

AggReadList ==
    /\ Idle
    /\ ds.cls = "AggregatedDataSource"
    /\ \E item \in IndexLists(AggIndices(ds), MaxAggList), kind \in ArgSortKinds :
        /\ op' = [name |-> "getitem_list", item |-> item]
        /\ arg' = AggListAfter(item)
        /\ res' = AggGetList(ds, item, kind)
    /\ UNCHANGED <<backing, ds>>

AggReadSlice ==
    /\ Idle
    /\ ds.cls = "AggregatedDataSource"
    /\ \E start \in OptionalIndex(AggNData(ds)),
          stop \in OptionalIndex(AggNData(ds) + 1),
          step \in {None} \cup (1..MaxStep) :
        /\ op' = [name |-> "getitem_slice", start |-> start, stop |-> stop, step |-> step]
        /\ arg' = <<start, stop, step>>
        /\ res' = AggGetSlice(ds, start, stop, step)
    /\ UNCHANGED <<backing, ds>>

AggNext == AggConstruct \/ Return \/ AggReadInt \/ AggReadList \/ AggReadSlice

AggSpec == AggInit /\ [][AggNext]_vars

----------------------------------------------------------------------------
(* The program: any of the three *)

Init == SegInit \/ CtxInit \/ AggInit

Next ==
    \/ CallSegmentAxis
    \/ CtxConstruct \/ CtxReadInt \/ CtxReadList \/ CtxReadSlice
    \/ AggConstruct \/ AggReadInt \/ AggReadList \/ AggReadSlice
    \/ Return

Spec == Init /\ [][Next]_vars

----------------------------------------------------------------------------
(* What the claims speak of *)

Returned == res.out \notin {"pending", "idle"}

CtxObject == ds.cls = "ContextDataSource"

AggObject == ds.cls = "AggregatedDataSource"

Values(seq) == {seq[j] : j \in 1..Len(seq)}

\* the j-th smallest entry of a list (j = 1 for the smallest), duplicates counted
JthSmallest(item, j) ==
    CHOOSE v \in Values(item) :
        /\ Cardinality({i \in 1..Len(item) : item[i] < v}) < j
        /\ j <= Cardinality({i \in 1..Len(item) : item[i] <= v})

Occurrences(item, v) == Cardinality({i \in 1..Len(item) : item[i] = v})

\* the sample count of data source k of the aggregation, from the arrays behind it
SampleCount(k) ==
    IF ds._data_sources[k].cls = "ContextDataSource"
    THEN Len(backing[k].data) \div ds._data_sources[k].step
    ELSE Len(backing[k].data)

\* the data sources (0-based) whose part of the global index space holds g
Owners(g) ==
    {k \in 0..(Len(ds._data_sources) - 1) :
        ds._ds_ends[k + 1] <= g /\ g < ds._ds_ends[k + 2]}

----------------------------------------------------------------------------
(* C1 *)

\* C1: in an aggregation of N >= 1 data sources with sample counts a_1..a_N
\* (zero counts included) the offsets are N+1 numbers, 0 first, each the
\* previous one plus the count of its source; the total sample count is the
\* last offset; and _to_ds_idx(g), for every 0 <= g < total, is the one source
\* k with offset[k] <= g < offset[k+1] and the local index g - offset[k], which
\* lies in 0..a_k-1.  A scalar read of g is the scalar read of that source at
\* that local index.
C1_OffsetsPartitionIndexSpace ==
    AggObject =>
    LET N == Len(ds._data_sources)
        ends == ds._ds_ends
    IN  /\ N >= 1
        /\ Len(ends) = N + 1
        /\ ends[1] = 0
        /\ \A k \in 1..N : ends[k + 1] = ends[k] + SampleCount(k)
        /\ AggNData(ds) = ends[N + 1]
        /\ \A g \in 0..(ends[N + 1] - 1) :
            LET pair == to_ds_idx(ds, g)
            IN  /\ Owners(g) = {pair[1]}
                /\ pair[2] = g - ends[pair[1] + 1]
                /\ 0 <= pair[2] /\ pair[2] < SampleCount(pair[1] + 1)
        /\ (op.name = "getitem_int" /\ op.item < ends[N + 1]) =>
            LET k == CHOOSE k \in Owners(op.item) : TRUE
            IN  res = SourceGetInt(ds._data_sources[k + 1], op.item - ends[k + 1])

\* a read of global index 0 that an empty first data source does not own
C1_Witness ==
    /\ AggObject
    /\ op.name = "getitem_int" /\ op.item = 0
    /\ Len(ds._data_sources) = MaxSources
    /\ SampleCount(1) = 0 /\ SampleCount(MaxSources) > 1
    /\ res.out = "ok" /\ res.d = backing[MaxSources].data[1]

----------------------------------------------------------------------------
(* C2 *)

\* every entry of the list, scaled by the step, is a sample of the set
CtxValidList(item) ==
    /\ item # <<>>
    /\ \A j \in 1..Len(item) : item[j] * ds.step < ds._n_data

\* C2: a list read of a ContextDataSource with a non-empty list of valid
\* logical indices, in any order and with duplicates, returns one row per
\* entry of the list, row j being the window and the target that the scalar
\* read of entry j returns: the order is the order of the list.
C2_ListReadKeepsRequestOrder ==
    (CtxObject /\ op.name = "getitem_list" /\ CtxValidList(op.item)) =>
        /\ res.out = "ok"
        /\ Len(res.d) = Len(op.item) /\ Len(res.t) = Len(op.item)
        /\ \A j \in 1..Len(op.item) :
            LET one == ContextGetInt(ds, op.item[j])
            IN  one.out = "ok" /\ res.d[j] = one.d /\ res.t[j] = one.t

\* a list that asks for a tail, a head and an interior window, in that order
C2_Witness ==
    /\ CtxObject /\ op.name = "getitem_list"
    /\ ds.context_size = 1 /\ ds.step = 1 /\ ds._n_data = 3
    /\ op.item = <<2, 0, 1>>
    /\ res.out = "ok" /\ res.t = <<backing[1].targets[3], backing[1].targets[1],
                                   backing[1].targets[2]>>

----------------------------------------------------------------------------
(* C3 *)

\* entry j (0-based) of the window around unscaled index u, from the backing array
WindowEntry(u, r, j) ==
    IF 0 <= u - r + j /\ u - r + j < Len(backing[1].data)
    THEN backing[1].data[u - r + j + 1]
    ELSE 0

ZeroEntries(window) == {j \in 1..Len(window) : window[j] = 0}

\* C3: the scalar read of logical index idx, with u = idx*step a sample of the
\* backing array of n >= 2r+1 samples, returns 2r+1 entries, entry j being
\* backing[u-r+j] where that is a sample and zero elsewhere, and the target of
\* sample u.  Where no backing sample is zero the zero entries are exactly the
\* first r-u ones (u < r), exactly the last u-(n-r)+1 ones (u >= n-r), or none.
C3_ScalarReadWindow ==
    (CtxObject /\ op.name = "getitem_int" /\ op.item * ds.step < Len(backing[1].data)) =>
    LET n == Len(backing[1].data)
        r == ds.context_size
        u == op.item * ds.step
    IN  /\ n >= 2 * r + 1
        /\ res.out = "ok"
        /\ Len(res.d) = 2 * r + 1
        /\ \A j \in 0..(2 * r) : res.d[j + 1] = WindowEntry(u, r, j)
        /\ res.t = backing[1].targets[u + 1]
        /\ (\A i \in 1..n : backing[1].data[i] # 0) =>
            ZeroEntries(res.d) =
                IF u < r THEN 1..(r - u)
                ELSE IF u >= n - r THEN (2 * r + 1 - (u - (n - r) + 1) + 1)..(2 * r + 1)
                ELSE {}

\* the last sample of MaxLen, radius 2, read through a step of 2: two trailing zeros
C3_Witness ==
    /\ CtxObject /\ op.name = "getitem_int"
    /\ ds.context_size = 2 /\ ds.step = 2 /\ Len(backing[1].data) = 5
    /\ op.item = 2
    /\ res.out = "ok"
    /\ backing[1].data[1] # 0
    /\ ZeroEntries(res.d) = {4, 5}

----------------------------------------------------------------------------
(* C4 *)

AggValidList(item) ==
    /\ item # <<>>
    /\ \A j \in 1..Len(item) : item[j] < AggNData(ds)

\* C4: a list read of an aggregation with a non-empty list of valid global
\* indices returns its rows in ascending order of the global index whatever
\* the order of the list: row j is what the scalar read of the j-th smallest
\* requested index returns.  One batched read is made per maximal run of
\* indices of one data source: as many reads as data sources asked, each to
\* another data source, with the local indices of all the indices it owns.
C4_AggListReadAscending ==
    (AggObject /\ op.name = "getitem_list" /\ AggValidList(op.item)) =>
        /\ res.out = "ok"
        /\ Len(res.d) = Len(op.item) /\ Len(res.t) = Len(op.item)
        /\ \A j \in 1..Len(op.item) :
            LET one == AggGetInt(ds, JthSmallest(op.item, j))
            IN  one.out = "ok" /\ res.d[j] = one.d /\ res.t[j] = one.t
        /\ Len(res.calls) = Cardinality(UNION {Owners(g) : g \in Values(op.item)})
        /\ \A c \in 1..Len(res.calls) :
            /\ \A c2 \in 1..Len(res.calls) :
                    c # c2 => res.calls[c].ds_idx # res.calls[c2].ds_idx
            /\ Len(res.calls[c].d_idx) =
                    Cardinality({i \in 1..Len(op.item) :
                                    res.calls[c].ds_idx \in Owners(op.item[i])})
            /\ \A g \in Values(op.item) :
                    res.calls[c].ds_idx \in Owners(g) =>
                        Occurrences(res.calls[c].d_idx,
                                    g - ds._ds_ends[res.calls[c].ds_idx + 1])
                            = Occurrences(op.item, g)

\* a descending list over two data sources: two reads, rows in ascending order
C4_Witness ==
    /\ AggObject /\ op.name = "getitem_list"
    /\ Len(op.item) = 2 /\ op.item[1] > op.item[2]
    /\ res.out = "ok"
    /\ Len(res.calls) = 2
    /\ res.d[1] = backing[1].data[op.item[2] + 1]

----------------------------------------------------------------------------
(* C5 *)

IsSortedCopyOf(after, before) ==
    /\ Len(after) = Len(before)
    /\ \A j \in 1..(Len(after) - 1) : after[j] <= after[j + 1]
    /\ \A v \in Values(before) \cup Values(after) :
            Occurrences(after, v) = Occurrences(before, v)

\* C5: a list read of an aggregation leaves the caller's list sorted ascending,
\* with the same indices, and changes nothing else: not the list of data
\* sources, not the offsets, not the arrays behind them.  A scalar read, and
\* every read of a ContextDataSource (integer, list, slice), leaves the
\* caller's index object as it was passed, and the arrays, the head and tail
\* buffers and the interior view unchanged.
C5_ReadsChangeOnlyTheSortedList ==
    [][(Idle /\ ~Idle') =>
        /\ backing' = backing
        /\ ds' = ds
        /\ (AggObject /\ op'.name = "getitem_list") => IsSortedCopyOf(arg', op'.item)
        /\ op'.name = "getitem_int" => arg' = op'.item
        /\ (CtxObject /\ op'.name = "getitem_list") => arg' = op'.item
        /\ (CtxObject /\ op'.name = "getitem_slice") =>
                arg' = <<op'.start, op'.stop, op'.step>>]_vars

\* an aggregation was read with a list that was not sorted, and the list now is
C5_Witness ==
    /\ AggObject /\ op.name = "getitem_list"
    /\ Len(op.item) = 2 /\ op.item[1] > op.item[2]
    /\ arg = <<op.item[2], op.item[1]>>
    /\ res.out = "ok"

----------------------------------------------------------------------------
(* C6 *)

\* how many samples data[start:stop] selects from N
SelectedCount(N, start, stop) ==
    LET lo == IF start = None THEN 0 ELSE Min(start, N)
        hi == IF stop = None THEN N ELSE Min(stop, N)
    IN  Max(hi - lo, 0)

\* C6: with a feature array (1-d or 2-d) and a target array of the same
\* length, a radius r and a sub-range (start, stop) that selects n >= 2r+1
\* samples, the constructor returns, and the set has r head windows, r tail
\* windows and n - 2r interior windows.
C6_ConstructionSucceeds ==
    LET N == Len(backing[1].data)
        r == op.context_size
        n == SelectedCount(N, op.start, op.stop)
    IN  (op.name = "ContextDataSource" /\ Returned
            /\ Len(backing[1].targets) = N /\ n >= 2 * r + 1) =>
        /\ res.out = "ok"
        /\ Len(ds._begin_data) = r
        /\ Len(ds._end_data) = r
        /\ Len(ds._data) = n - 2 * r
        /\ Len(ds._begin_data) + Len(ds._end_data) + Len(ds._data) = n

----------------------------------------------------------------------------
(* C7 and C8 *)

\* the smallest length >= L that divides into full frames
RoundUpLength(L, F, H) ==
    CHOOSE m \in L..(L + F + H) :
        /\ m >= F /\ (m - F) % H = 0
        /\ \A m2 \in L..(m - 1) : ~(m2 >= F /\ (m2 - F) % H = 0)

\* C7: with the cut policy, frame_size F > 0, hop_size H > 0 and an input of
\* length L >= 0: if L >= F the call returns exactly 1 + (L-F)//H frames and
\* frame k is input[k*H : k*H+F]; if L < F the call raises the 'Not enough
\* data points' ValueError.
C7_CutFramesOrInsufficient ==
    (op.name = "segment_axis" /\ Returned /\ op.end = "cut"
        /\ op.frame_size > 0 /\ op.hop_size > 0) =>
    LET L == Len(op.signal)
        F == op.frame_size
        H == op.hop_size
    IN  IF L >= F
        THEN /\ res.out = "ok"
             /\ Len(res.frames) = 1 + (L - F) \div H
             /\ \A k \in 0..((L - F) \div H) :
                    res.frames[k + 1] = PySlice(op.signal, k * H, k * H + F)
        ELSE res.out = "ValueError: Not enough data points"

\* C8: with the wrap policy, F > 0, H > 0 and an input of length L >= 1 that
\* needs edge handling, the call returns, the framed array has length
\* round_up, it starts with the input, and position p >= L holds input[p-L].
C8_WrapCopiesPrefix ==
    LET L == Len(op.signal)
        F == op.frame_size
        H == op.hop_size
    IN  (op.name = "segment_axis" /\ Returned /\ op.end = "wrap"
            /\ F > 0 /\ H > 0 /\ L >= 1 /\ (L < F \/ (L - F) % H # 0)) =>
        /\ res.out = "ok"
        /\ Len(res.signal) = RoundUpLength(L, F, H)
        /\ \A p \in 0..(L - 1) : res.signal[p + 1] = op.signal[p + 1]
        /\ \A p \in L..(Len(res.signal) - 1) :
               p - L < L /\ res.signal[p + 1] = op.signal[p - L + 1]

----------------------------------------------------------------------------
(* C9 *)

\* the index list the claim gives a range: a default only for an absent field
ClaimedRange(start, stop, step, total) ==
    PyRange(IF start = None THEN 0 ELSE start,
            IF stop = None THEN total ELSE stop,
            IF step = None THEN 1 ELSE step)

\* C9: a range read, of an aggregation or of a ContextDataSource, returns what
\* the list read of the same object returns for start, start+step, ... below
\* stop, where start is 0, stop the sample count and step 1 only when absent.
C9_RangeReadIsListRead ==
    (op.name = "getitem_slice" /\ Returned) =>
        IF AggObject
        THEN res = AggGetList(ds, ClaimedRange(op.start, op.stop, op.step, AggNData(ds)),
                              "first")
        ELSE res = ContextGetList(ds, ClaimedRange(op.start, op.stop, op.step,
                                                   ContextNData(ds)),
                                  "first")

----------------------------------------------------------------------------
(* C10 *)

\* the regions of the unscaled index space that hold u
Regions(u, n, r) ==
    {x \in {"head", "interior", "tail"} :
        \/ x = "head" /\ u < r
        \/ x = "interior" /\ r <= u /\ u < n - r
        \/ x = "tail" /\ n - r <= u /\ u < n}

\* C10: a ContextDataSource over n >= 2r+1 samples with step s reports
\* n_data = floor(n / s); every logical index below n_data addresses a sample,
\* its scalar read returns and lies in exactly one region; the range read with
\* no field given returns n_data rows, row i the scalar read of i; and an
\* aggregation counts n_data samples for such a data source.
C10_StepSubsamples ==
    /\ CtxObject =>
        LET n == Len(backing[1].data)
            r == ds.context_size
        IN  /\ ContextNData(ds) = n \div ds.step
            /\ \A i \in 0..(ContextNData(ds) - 1) :
                /\ i * ds.step < n
                /\ Cardinality(Regions(i * ds.step, n, r)) = 1
                /\ ContextGetInt(ds, i).out = "ok"
            /\ (op.name = "getitem_slice" /\ op.start = None /\ op.stop = None
                    /\ op.step = None) =>
                /\ res.out = "ok"
                /\ Len(res.d) = ContextNData(ds)
                /\ \A i \in 0..(ContextNData(ds) - 1) :
                        /\ res.d[i + 1] = ContextGetInt(ds, i).d
                        /\ res.t[i + 1] = ContextGetInt(ds, i).t
    /\ AggObject =>
        \A k \in 1..Len(ds._data_sources) :
            ds._data_sources[k].cls = "ContextDataSource" =>
                ds._ds_ends[k + 1] - ds._ds_ends[k] = ContextNData(ds._data_sources[k])

====
